---- MODULE Spec2Model ----
(***************************************************************************)
(* Model of the EFS replication-configuration resource adapter            *)
(* (internal/service/efs/replication_configuration.go) and of the client  *)
(* constructors of the mediaconvert and sfn service packages.             *)
(*                                                                         *)
(* The remote API is the environment: every API call draws its answer     *)
(* from the set of answers the API can give.  The handlers are split at   *)
(* their API calls, so that the order of calls can be observed in `trace`.*)
(***************************************************************************)
EXTENDS Integers, Sequences, FiniteSets, TLC

VARIABLES
    op,               \* the handler the framework is running ("" when idle)
    pc,               \* position inside the handler
    conn,             \* Region of the connection used by the running delete
    id,               \* d.Id() of the schema.ResourceData ("" = unset)
    isNew,            \* d.IsNewResource()
    attrs,            \* attributes written with d.Set by Read
    diags,            \* diagnostics returned by the handler
    trace,            \* calls and returns of the running handler, in order
    obs,              \* what the polls of the running wait observed, in order (last two)
    targetOccurence,  \* StateChangeConf loop counter
    notfoundTick,     \* StateChangeConf loop counter
    config,           \* the config map handed to a client constructor
    client            \* the client a constructor returned

vars == <<op, pc, conn, id, isNew, attrs, diags, trace, obs,
          targetOccurence, notfoundTick, config, client>>

----------------------------------------------------------------------------
(* Bounds *)

\* Largest number of replication descriptions in a Describe answer.
MaxRepl == 2

----------------------------------------------------------------------------
(* The remote API *)

ReplicationStatusEnabled  == "ENABLED"
ReplicationStatusEnabling == "ENABLING"
ReplicationStatusDeleting == "DELETING"

ReplicationStatuses ==
    {ReplicationStatusEnabled, ReplicationStatusEnabling, ReplicationStatusDeleting,
     "ERROR", "PAUSED", "PAUSING"}

ErrCodeFileSystemNotFound  == "FileSystemNotFound"
ErrCodeReplicationNotFound == "ReplicationNotFound"

\* Error codes an API call can fail with ("" = the call succeeded).
ErrCodes == {ErrCodeFileSystemNotFound, ErrCodeReplicationNotFound, "InternalServerError"}

NilPtr == "nil"

\* Destinations of one replication description: none, a nil element, or one
\* destination with a status.
DestinationLists == {<<>>} \cup {<<s>> : s \in ReplicationStatuses \cup {NilPtr}}

SeqsUpTo(S, n) == UNION {[1..k -> S] : k \in 0..n}

\* Answers of DescribeReplicationConfigurations.
DescribeAnswers ==
    {[err |-> c, Replications |-> <<>>] : c \in ErrCodes}
    \cup {[err |-> "", Replications |-> r] : r \in SeqsUpTo(DestinationLists, MaxRepl)}

----------------------------------------------------------------------------
(* Finders *)

NotFoundError       == "NotFoundError"
EmptyResultError    == "EmptyResultError"
TooManyResultsError == "TooManyResultsError"

ErrCodeEquals(err, codes) == err \in codes

findReplicationConfigurations(answer) ==
    IF ErrCodeEquals(answer.err, {ErrCodeFileSystemNotFound, ErrCodeReplicationNotFound})
    THEN [output |-> <<>>, err |-> NotFoundError]
    ELSE IF answer.err # ""
    THEN [output |-> <<>>, err |-> answer.err]
    ELSE [output |-> answer.Replications, err |-> ""]

\* tfresource.AssertSinglePtrResult: exactly one element, or an error.
AssertSinglePtrResult(a) ==
    IF Len(a) = 0 THEN [output |-> <<>>, err |-> EmptyResultError]
    ELSE IF Len(a) > 1 THEN [output |-> <<>>, err |-> TooManyResultsError]
    ELSE [output |-> a[1], err |-> ""]

findReplicationConfiguration(answer) ==
    LET r == findReplicationConfigurations(answer)
    IN  IF r.err # "" THEN [output |-> <<>>, err |-> r.err]
        ELSE AssertSinglePtrResult(r.output)

\* output is the Destinations list of the single description found.
FindReplicationConfigurationByID(answer) ==
    LET r == findReplicationConfiguration(answer)
    IN  IF r.err # "" THEN [output |-> <<>>, err |-> r.err]
        ELSE IF Len(r.output) = 0 \/ r.output[1] = NilPtr
        THEN [output |-> <<>>, err |-> EmptyResultError]
        ELSE [output |-> r.output, err |-> ""]

\* tfresource.NotFound: the error is, or converts to, a retry.NotFoundError.
NotFound(err) == err \in {NotFoundError, EmptyResultError, TooManyResultsError}

\* One call of the refresh function: (result, state, error).
statusReplicationConfiguration(answer) ==
    LET r == FindReplicationConfigurationByID(answer)
    IN  IF NotFound(r.err) THEN [res |-> NilPtr, state |-> "", err |-> ""]
        ELSE IF r.err # "" THEN [res |-> NilPtr, state |-> "", err |-> r.err]
        ELSE [res |-> "output", state |-> r.output[1], err |-> ""]

----------------------------------------------------------------------------
(* Waiters *)

\* StateChangeConf defaults applied by WaitForStateContext when a field is 0.
NotFoundChecks == 20
DefaultContinuousTargetOccurence == 1
ContinuousTargetOccurence == 2

\* CreatedConf with Pending and Target exchanged.
CreatedConfSwapped ==
    [Pending |-> {ReplicationStatusEnabled},
     Target  |-> {ReplicationStatusEnabling},
     ContinuousTargetOccurence |-> DefaultContinuousTargetOccurence,
     NotFoundChecks |-> NotFoundChecks]

CreatedConf ==
    [Pending |-> {ReplicationStatusEnabling},
     Target  |-> {ReplicationStatusEnabled},
     ContinuousTargetOccurence |-> DefaultContinuousTargetOccurence,
     NotFoundChecks |-> NotFoundChecks]

\* DeletedConf without its ContinuousTargetOccurence field.
DeletedConfOnce ==
    [Pending |-> {ReplicationStatusDeleting},
     Target  |-> {},
     ContinuousTargetOccurence |-> DefaultContinuousTargetOccurence,
     NotFoundChecks |-> NotFoundChecks]

DeletedConf ==
    [Pending |-> {ReplicationStatusDeleting},
     Target  |-> {},
     ContinuousTargetOccurence |-> ContinuousTargetOccurence,
     NotFoundChecks |-> NotFoundChecks]

Outcome(out, tOcc, nf) == [out |-> out, tOcc |-> tOcc, nf |-> nf]

\* One round of the WaitForStateContext loop after Refresh returned r:
\* "done" = the wait returns success, "error" = it returns an error,
\* "continue" = it sleeps and polls again.
WaitForStateRound(conf, r, tOcc, nf) ==
    IF r.err # "" THEN Outcome("error", tOcc, nf)
    ELSE IF r.res = NilPtr /\ conf.Target = {} THEN
        IF conf.ContinuousTargetOccurence = tOcc + 1
        THEN Outcome("done", tOcc + 1, nf)
        ELSE Outcome("continue", tOcc + 1, nf)
    ELSE IF r.res = NilPtr THEN
        IF nf + 1 > conf.NotFoundChecks
        THEN Outcome("error", tOcc, nf + 1)
        ELSE Outcome("continue", tOcc, nf + 1)
    ELSE
        LET inTarget  == r.state \in conf.Target
            inPending == r.state \in conf.Pending
            t1        == IF inTarget THEN tOcc + 1 ELSE tOcc
        IN  IF inTarget /\ conf.ContinuousTargetOccurence = t1
            THEN Outcome("done", t1, 0)
            ELSE IF inPending THEN Outcome("continue", 0, 0)
            ELSE IF inTarget THEN Outcome("continue", t1, 0)
            ELSE IF conf.Pending # {} THEN Outcome("error", t1, 0)
            ELSE Outcome("continue", t1, 0)

\* What a poll saw, as recorded in obs.
Observation(r) ==
    IF r.err # "" THEN "error" ELSE IF r.res = NilPtr THEN "notfound" ELSE r.state

\* obs keeps the last two observations of the running wait.
Observe(o, x) == IF Len(o) < 2 THEN Append(o, x) ELSE <<o[2], x>>

----------------------------------------------------------------------------
(* Client constructors *)

FIPSEndpointStateUnset    == "Unset"
FIPSEndpointStateEnabled  == "Enabled"
FIPSEndpointStateDisabled == "Disabled"

FIPSEndpointStates ==
    {FIPSEndpointStateUnset, FIPSEndpointStateEnabled, FIPSEndpointStateDisabled}

\* The config map: the configured endpoint override and the base
\* configuration (aws_sdkv2_config, or the v1 session's Config).
Configs ==
    [endpoint : {"", "https://a", "https://b"},
     base     : [endpoint : {NilPtr, "https://base"}, fips : FIPSEndpointStates]]

NoConfig == [endpoint |-> "", base |-> [endpoint |-> NilPtr, fips |-> FIPSEndpointStateUnset]]
NoClient == [kind |-> "", endpoint |-> NilPtr, fips |-> FIPSEndpointStateUnset, err |-> NilPtr]

\* mediaconvert: NewFromConfig copies the base configuration into the
\* Options, then runs the option function on them.
NewClient(cfg) ==
    LET o == cfg.base
    IN  IF cfg.endpoint # ""
        THEN [kind     |-> "mediaconvert",
              endpoint |-> cfg.endpoint,
              fips     |-> IF o.fips = FIPSEndpointStateEnabled
                           THEN FIPSEndpointStateDisabled ELSE o.fips,
              err      |-> NilPtr]
        ELSE [kind |-> "mediaconvert", endpoint |-> o.endpoint, fips |-> o.fips,
              err |-> NilPtr]

\* aws.Config.MergeIn, as used by Session.Copy: fields set in other win.
MergeIn(dst, other) ==
    [endpoint |-> IF other.endpoint # NilPtr THEN other.endpoint ELSE dst.endpoint,
     fips     |-> IF other.fips # FIPSEndpointStateUnset THEN other.fips ELSE dst.fips]

\* NewConn without the UseFIPSEndpoint override.
NewConnKeepsFIPS(cfg) ==
    LET sess == cfg.base
        c    == IF cfg.endpoint # ""
                THEN [endpoint |-> cfg.endpoint, fips |-> FIPSEndpointStateUnset]
                ELSE [endpoint |-> NilPtr, fips |-> FIPSEndpointStateUnset]
        m    == MergeIn(sess, c)
    IN  [kind |-> "sfn", endpoint |-> m.endpoint, fips |-> m.fips, err |-> NilPtr]

\* sfn: an empty aws.Config is filled in and merged over the session's.
NewConn(cfg) ==
    LET sess == cfg.base
        c    == IF cfg.endpoint # ""
                THEN [endpoint |-> cfg.endpoint,
                      fips     |-> IF sess.fips = FIPSEndpointStateEnabled
                                   THEN FIPSEndpointStateDisabled
                                   ELSE FIPSEndpointStateUnset]
                ELSE [endpoint |-> NilPtr, fips |-> FIPSEndpointStateUnset]
        m    == MergeIn(sess, c)
    IN  [kind |-> "sfn", endpoint |-> m.endpoint, fips |-> m.fips, err |-> NilPtr]

----------------------------------------------------------------------------
(* Resource state *)

\* The source_file_system_id of the configuration.
FsID == "fs-1"

\* Attributes Read writes, in the order it writes them.
ReadAttrs ==
    {"creation_time", "destination", "original_source_file_system_arn",
     "source_file_system_arn", "source_file_system_id", "source_file_system_region"}

E(ev, c, res) == [ev |-> ev, conn |-> c, res |-> res]

Init ==
    /\ op = ""
    /\ pc = "idle"
    /\ conn = ""
    /\ id = ""
    /\ isNew = FALSE
    /\ attrs = {}
    /\ diags = ""
    /\ trace = <<>>
    /\ obs = <<>>
    /\ targetOccurence = 0
    /\ notfoundTick = 0
    /\ config = NoConfig
    /\ client = NoClient

\* The framework calls a handler: the transient state of the last one goes.
Begin(o, p) ==
    /\ pc = "idle"
    /\ op' = o
    /\ pc' = p
    /\ diags' = ""
    /\ obs' = <<>>
    /\ targetOccurence' = 0
    /\ notfoundTick' = 0

\* The framework calls Create for a resource that has no ID yet and marks
\* the ResourceData as new.
StartCreate ==
    /\ id = ""
    /\ Begin("Create", "create_api")
    /\ isNew' = TRUE
    /\ attrs' = {}
    /\ conn' = "src"
    /\ trace' = <<>>
    /\ config' = NoConfig
    /\ client' = NoClient
    /\ UNCHANGED id

\* CreateAPI with SetId moved before the error check.
CreateAPISetsIdFirst ==
    /\ pc = "create_api"
    /\ \E err \in {""} \cup ErrCodes :
        /\ id' = FsID
        /\ IF err # ""
           THEN /\ diags' = "error"
                /\ pc' = "done"
                /\ trace' = trace \o <<E("CreateReplicationConfiguration", conn, err)>>
           ELSE /\ pc' = "create_wait"
                /\ trace' = trace \o <<E("CreateReplicationConfiguration", conn, ""),
                                       E("SetId", conn, FsID),
                                       E("waitReplicationConfigurationCreated", conn, "")>>
                /\ UNCHANGED diags
    /\ obs' = <<>>
    /\ targetOccurence' = 0
    /\ notfoundTick' = 0
    /\ UNCHANGED <<op, conn, isNew, attrs, config, client>>

\* Create up to the first poll: the API call, SetId, entering the wait.
CreateAPI ==
    /\ pc = "create_api"
    /\ \E err \in {""} \cup ErrCodes :
        IF err # ""
        THEN /\ diags' = "error"
             /\ pc' = "done"
             /\ trace' = trace \o <<E("CreateReplicationConfiguration", conn, err)>>
             /\ UNCHANGED id
        ELSE /\ id' = FsID
             /\ pc' = "create_wait"
             /\ trace' = trace \o <<E("CreateReplicationConfiguration", conn, ""),
                                    E("SetId", conn, FsID),
                                    E("waitReplicationConfigurationCreated", conn, "")>>
             /\ UNCHANGED diags
    /\ obs' = <<>>
    /\ targetOccurence' = 0
    /\ notfoundTick' = 0
    /\ UNCHANGED <<op, conn, isNew, attrs, config, client>>

\* One poll of waitReplicationConfigurationCreated, or its timeout; on
\* success Create goes on to Read.
CreatedPoll ==
    /\ pc = "create_wait"
    /\ \/ /\ diags' = "error"
          /\ pc' = "done"
          /\ trace' = Append(trace, E("wait return", conn, "timeout"))
          /\ UNCHANGED <<obs, targetOccurence, notfoundTick>>
       \/ \E answer \in DescribeAnswers :
            LET r == statusReplicationConfiguration(answer)
                o == WaitForStateRound(CreatedConf, r, targetOccurence, notfoundTick)
            IN  /\ obs' = Observe(obs, Observation(r))
                /\ targetOccurence' = o.tOcc
                /\ notfoundTick' = o.nf
                /\ CASE o.out = "continue" ->
                          /\ UNCHANGED <<pc, diags, trace>>
                     [] o.out = "error" ->
                          /\ diags' = "error"
                          /\ pc' = "done"
                          /\ trace' = Append(trace, E("wait return", conn, "error"))
                     [] o.out = "done" ->
                          /\ pc' = "read"
                          /\ trace' = trace \o <<E("wait return", conn, ""),
                                                 E("resourceReplicationConfigurationRead", conn, "")>>
                          /\ UNCHANGED diags
    /\ UNCHANGED <<op, conn, id, isNew, attrs, config, client>>

\* The framework refreshes a resource that is in state.
StartRead ==
    /\ id # ""
    /\ Begin("Read", "read")
    /\ isNew' = FALSE
    /\ conn' = "src"
    /\ trace' = <<E("resourceReplicationConfigurationRead", "src", "")>>
    /\ config' = NoConfig
    /\ client' = NoClient
    /\ UNCHANGED <<id, attrs>>

\* ReadBranch without the IsNewResource test.
ReadBranchIgnoresNew(new, err, setErr) ==
    IF NotFound(err) THEN "remove"
    ELSE IF err # "" THEN "read error"
    ELSE IF setErr THEN "set error"
    ELSE "set"

\* The branch resourceReplicationConfigurationRead takes after the lookup.
ReadBranch(new, err, setErr) ==
    IF ~new /\ NotFound(err) THEN "remove"
    ELSE IF err # "" THEN "read error"
    ELSE IF setErr THEN "set error"
    ELSE "set"

\* resourceReplicationConfigurationRead: the lookup and what follows it.
\* setErr: d.Set of the destination list returns an error.
Read ==
    /\ pc = "read"
    /\ \E answer \in DescribeAnswers, setErr \in BOOLEAN :
        LET r == FindReplicationConfigurationByID(answer)
        IN  /\ trace' = Append(trace, E("FindReplicationConfigurationByID", conn, r.err))
            /\ IF ReadBranch(isNew, r.err, setErr) = "remove"
               THEN /\ id' = ""
                    /\ UNCHANGED <<diags, attrs>>
               ELSE IF ReadBranch(isNew, r.err, setErr) = "read error"
               THEN /\ diags' = "error"
                    /\ UNCHANGED <<id, attrs>>
               ELSE IF ReadBranch(isNew, r.err, setErr) = "set error"
               THEN /\ diags' = "error"
                    /\ attrs' = attrs \cup {"creation_time"}
                    /\ UNCHANGED id
               ELSE /\ attrs' = attrs \cup ReadAttrs
                    /\ UNCHANGED <<id, diags>>
    /\ pc' = "done"
    /\ UNCHANGED <<op, conn, isNew, obs, targetOccurence, notfoundTick, config, client>>

\* The framework calls Delete for a resource that is in state.  Delete
\* starts with the connection of the destination file system's Region.
StartDelete ==
    /\ id # ""
    /\ Begin("Delete", "delete_api")
    /\ isNew' = FALSE
    /\ conn' = "dest"
    /\ trace' = <<>>
    /\ config' = NoConfig
    /\ client' = NoClient
    /\ UNCHANGED <<id, attrs>>

\* DeleteReturns with the error of the destination Region's deletion ignored.
DeleteReturnsGoesOn(t, err) ==
    /\ trace' = Append(t, E("deleteReplicationConfiguration return", conn, err))
    /\ IF conn = "dest"
       THEN /\ conn' = "src"
            /\ pc' = "delete_api"
            /\ UNCHANGED diags
       ELSE IF err # ""
       THEN /\ diags' = "error"
            /\ pc' = "done"
            /\ UNCHANGED conn
       ELSE /\ pc' = "done"
            /\ UNCHANGED <<conn, diags>>

\* deleteReplicationConfiguration returned err ("" = nil) to
\* resourceReplicationConfigurationDelete on the connection conn.
DeleteReturns(t, err) ==
    /\ trace' = Append(t, E("deleteReplicationConfiguration return", conn, err))
    /\ IF err # ""
       THEN /\ diags' = "error"
            /\ pc' = "done"
            /\ UNCHANGED conn
       ELSE IF conn = "dest"
       THEN /\ conn' = "src"
            /\ pc' = "delete_api"
            /\ UNCHANGED diags
       ELSE /\ pc' = "done"
            /\ UNCHANGED <<conn, diags>>

\* DeleteCallHandling that tolerates FileSystemNotFound only.
DeleteCallHandlingOneCode(err) ==
    IF ErrCodeEquals(err, {ErrCodeFileSystemNotFound})
    THEN "return nil"
    ELSE IF err # "" THEN "return err"
    ELSE "wait"

\* What deleteReplicationConfiguration does with the error of its API call.
DeleteCallHandling(err) ==
    IF ErrCodeEquals(err, {ErrCodeFileSystemNotFound, ErrCodeReplicationNotFound})
    THEN "return nil"
    ELSE IF err # "" THEN "return err"
    ELSE "wait"

\* deleteReplicationConfiguration up to the first poll: the API call and
\* the handling of its error.
DeleteAPI ==
    /\ pc = "delete_api"
    /\ \E err \in {""} \cup ErrCodes :
        LET t == Append(trace, E("DeleteReplicationConfiguration", conn, err))
        IN  IF DeleteCallHandling(err) = "return nil"
            THEN DeleteReturns(t, "")
            ELSE IF DeleteCallHandling(err) = "return err"
            THEN DeleteReturns(t, err)
            ELSE /\ trace' = Append(t, E("waitReplicationConfigurationDeleted", conn, ""))
                 /\ pc' = "delete_wait"
                 /\ UNCHANGED <<conn, diags>>
    /\ obs' = <<>>
    /\ targetOccurence' = 0
    /\ notfoundTick' = 0
    /\ UNCHANGED <<op, id, isNew, attrs, config, client>>

\* One poll of waitReplicationConfigurationDeleted, or its timeout.
DeletedPoll ==
    /\ pc = "delete_wait"
    /\ \/ /\ DeleteReturns(Append(trace, E("wait return", conn, "timeout")), "timeout")
          /\ UNCHANGED <<obs, targetOccurence, notfoundTick>>
       \/ \E answer \in DescribeAnswers :
            LET r == statusReplicationConfiguration(answer)
                o == WaitForStateRound(DeletedConf, r, targetOccurence, notfoundTick)
            IN  /\ obs' = Observe(obs, Observation(r))
                /\ targetOccurence' = o.tOcc
                /\ notfoundTick' = o.nf
                /\ CASE o.out = "continue" ->
                          /\ UNCHANGED <<pc, conn, diags, trace>>
                     [] o.out = "error" ->
                          DeleteReturns(Append(trace, E("wait return", conn, "error")), "error")
                     [] o.out = "done" ->
                          DeleteReturns(Append(trace, E("wait return", conn, "")), "")
    /\ UNCHANGED <<op, id, isNew, attrs, config, client>>

\* servicePackage.NewClient of mediaconvert.
CallNewClient ==
    /\ Begin("NewClient", "done")
    /\ \E cfg \in Configs :
        /\ config' = cfg
        /\ client' = NewClient(cfg)
    /\ trace' = <<>>
    /\ UNCHANGED <<conn, id, isNew, attrs>>

\* servicePackage.NewConn of sfn.
CallNewConn ==
    /\ Begin("NewConn", "done")
    /\ \E cfg \in Configs :
        /\ config' = cfg
        /\ client' = NewConn(cfg)
    /\ trace' = <<>>
    /\ UNCHANGED <<conn, id, isNew, attrs>>

\* The handler returned to the framework.  A Delete without error removes
\* the resource from state.
Return ==
    /\ pc = "done"
    /\ pc' = "idle"
    /\ IF op = "Delete" /\ diags = ""
       THEN id' = "" /\ attrs' = {}
       ELSE UNCHANGED <<id, attrs>>
    /\ UNCHANGED <<op, conn, isNew, diags, trace, obs, targetOccurence, notfoundTick,
                   config, client>>

Next ==
    \/ StartCreate
    \/ CreateAPI
    \/ CreatedPoll
    \/ StartRead
    \/ Read
    \/ StartDelete
    \/ DeleteAPI
    \/ DeletedPoll
    \/ CallNewClient
    \/ CallNewConn
    \/ Return

Spec == Init /\ [][Next]_vars

----------------------------------------------------------------------------
(* Properties *)

Last(q) == q[Len(q)]
Events(ev) == {i \in 1..Len(trace) : trace[i].ev = ev}
NotFoundKinds == {NotFoundError, EmptyResultError, TooManyResultsError}

\* The steps of Create, in the order the claim gives them.
CreateOrder ==
    <<"CreateReplicationConfiguration", "SetId", "waitReplicationConfigurationCreated",
      "wait return", "resourceReplicationConfigurationRead",
      "FindReplicationConfigurationByID">>

\* C1: Create performs its steps in the order API call, SetId, poll, Read;
\* Read is reached, and state is populated from it, only when the last poll
\* observed ENABLED (never while the last observed status is ENABLING).
C1_ReadOnlyAfterEnabled ==
    op = "Create" =>
        /\ Len(trace) <= Len(CreateOrder)
        /\ \A i \in 1..Len(trace) : trace[i].ev = CreateOrder[i]
        /\ (pc = "create_wait" \/ obs # <<>>) => id = FsID
        /\ (pc = "read" \/ Events("resourceReplicationConfigurationRead") # {} \/ attrs # {})
              => (obs # <<>> /\ Last(obs) = ReplicationStatusEnabled)

C1_Witness ==
    /\ op = "Create"
    /\ pc = "done"
    /\ diags = ""
    /\ attrs = ReadAttrs
    /\ obs = <<ReplicationStatusEnabling, ReplicationStatusEnabled>>

\* A wait of the running Delete has just returned: obs holds what it saw.
DeletedWaitReturned ==
    /\ op = "Delete"
    /\ Len(trace) >= 2
    /\ trace[Len(trace) - 1].ev = "wait return"

\* C2: waitReplicationConfigurationDeleted returns success only after two
\* consecutive polls observed not found; a poll that observes DELETING keeps
\* the wait going and restarts the count; a poll that observes any other
\* status makes the wait return an error.
C2_DeletedAfterTwoNotFound ==
    /\ DeletedWaitReturned =>
        LET res == trace[Len(trace) - 1].res
        IN  /\ res = "" => obs = <<"notfound", "notfound">>
            /\ (obs # <<>> /\ Last(obs) \in ReplicationStatuses \ {ReplicationStatusDeleting})
                  => res = "error"
            /\ (obs # <<>> /\ Last(obs) = ReplicationStatusDeleting) => res = "timeout"
    /\ (op = "Delete" /\ pc = "delete_wait" /\ obs # <<>>) =>
        /\ Last(obs) \in {"notfound", ReplicationStatusDeleting}
        /\ Last(obs) = ReplicationStatusDeleting => targetOccurence = 0
        /\ Last(obs) = "notfound" => (Len(obs) = 1 \/ obs[1] # "notfound")

C2_Witness ==
    /\ DeletedWaitReturned
    /\ trace[Len(trace) - 1].res = ""
    /\ obs = <<"notfound", "notfound">>

\* C3: in both constructors, a non-empty configured endpoint becomes the
\* client's endpoint and FIPS becomes Disabled exactly when it was Enabled;
\* with an empty endpoint both stay as in the base configuration; the
\* constructor never returns an error.
C3_EndpointAndFIPS ==
    client.kind # "" =>
        /\ client.err = NilPtr
        /\ config.endpoint # "" =>
            /\ client.endpoint = config.endpoint
            /\ client.fips = FIPSEndpointStateDisabled
                  <=> config.base.fips \in {FIPSEndpointStateEnabled, FIPSEndpointStateDisabled}
            /\ config.base.fips # FIPSEndpointStateEnabled => client.fips = config.base.fips
        /\ config.endpoint = "" =>
            /\ client.endpoint = config.base.endpoint
            /\ client.fips = config.base.fips

C3_Witness ==
    /\ client.kind = "sfn"
    /\ config.endpoint = "https://a"
    /\ config.base.fips = FIPSEndpointStateEnabled
    /\ client.fips = FIPSEndpointStateDisabled
    /\ client.endpoint = "https://a"

\* C4: Delete deletes in the destination Region first; the source-Region
\* call is issued only after the destination-Region deletion returned
\* without error; if it returned an error, Delete returns it and the
\* source-Region call is never issued.
C4_DestinationFirst ==
    op = "Delete" =>
        /\ trace # <<>> => trace[1] \in {E("DeleteReplicationConfiguration", "dest", c) :
                                          c \in {""} \cup ErrCodes}
        /\ \A i \in Events("DeleteReplicationConfiguration") :
              trace[i].conn = "src" =>
                 /\ i > 1
                 /\ trace[i - 1] = E("deleteReplicationConfiguration return", "dest", "")
        /\ \A j \in Events("deleteReplicationConfiguration return") :
              (trace[j].conn = "dest" /\ trace[j].res # "") =>
                 /\ diags = "error"
                 /\ pc \in {"done", "idle"}
                 /\ j = Len(trace)
                 /\ \A k \in 1..Len(trace) : trace[k].conn = "dest"

C4_Witness ==
    /\ op = "Delete"
    /\ pc = "done"
    /\ diags = ""
    /\ \E i \in Events("DeleteReplicationConfiguration") : trace[i].conn = "src"
    /\ \E i \in Events("waitReplicationConfigurationDeleted") : trace[i].conn = "dest"

\* C5: if the CreateReplicationConfiguration call fails, Create returns an
\* error with the ID still unset and neither polls nor reads; the ID is set
\* only after a successful call.
C5_CreateErrorLeavesIdUnset ==
    op = "Create" =>
        /\ \A i \in Events("CreateReplicationConfiguration") :
              trace[i].res # "" =>
                 /\ id = ""
                 /\ diags = "error"
                 /\ pc \in {"done", "idle"}
                 /\ Len(trace) = 1
                 /\ obs = <<>>
                 /\ attrs = {}
        /\ id # "" => (trace # <<>> /\ trace[1] = E("CreateReplicationConfiguration", "src", ""))

C5_Witness ==
    /\ op = "Create"
    /\ pc = "done"
    /\ trace = <<E("CreateReplicationConfiguration", "src", "InternalServerError")>>
    /\ diags = "error"

\* C6: deleteReplicationConfiguration returns nil without polling when the
\* call fails with FileSystemNotFound or ReplicationNotFound, returns the
\* error without polling when it fails otherwise, and enters the wait only
\* when the call succeeded.
C6_DeleteTolerantOfAbsence ==
    op = "Delete" =>
        /\ \A i \in Events("DeleteReplicationConfiguration") :
              /\ i < Len(trace)
              /\ trace[i].res \in {ErrCodeFileSystemNotFound, ErrCodeReplicationNotFound}
                    => trace[i + 1] = E("deleteReplicationConfiguration return", trace[i].conn, "")
              /\ trace[i].res \in ErrCodes \ {ErrCodeFileSystemNotFound, ErrCodeReplicationNotFound}
                    => trace[i + 1] = E("deleteReplicationConfiguration return", trace[i].conn,
                                        trace[i].res)
              /\ trace[i].res = ""
                    => trace[i + 1] = E("waitReplicationConfigurationDeleted", trace[i].conn, "")
        /\ \A j \in Events("waitReplicationConfigurationDeleted") :
              /\ j > 1
              /\ trace[j - 1] = E("DeleteReplicationConfiguration", trace[j].conn, "")
        /\ pc = "delete_wait" => Last(trace).ev = "waitReplicationConfigurationDeleted"

C6_Witness ==
    /\ op = "Delete"
    /\ pc = "done"
    /\ diags = ""
    /\ trace = <<E("DeleteReplicationConfiguration", "dest", ErrCodeReplicationNotFound),
                 E("deleteReplicationConfiguration return", "dest", ""),
                 E("DeleteReplicationConfiguration", "src", ErrCodeFileSystemNotFound),
                 E("deleteReplicationConfiguration return", "src", "")>>

\* C7: when Read's lookup reports not found, a resource that is not new has
\* its ID cleared, no error and no attribute set, and a new resource gets an
\* error with its ID left set; a lookup error that is not a not-found error
\* always yields an error with the ID unchanged.
C7_ReadNotFound ==
    [][(pc = "read" /\ pc' = "done") =>
          LET e == Last(trace').res
          IN  /\ (e \in NotFoundKinds /\ ~isNew)
                    => (id' = "" /\ diags' = "" /\ attrs' = attrs)
              /\ (e \in NotFoundKinds /\ isNew)
                    => (diags' = "error" /\ id' = id /\ id # "" /\ attrs' = attrs)
              /\ (e # "" /\ e \notin NotFoundKinds)
                    => (diags' = "error" /\ id' = id /\ attrs' = attrs)]_vars

C7_Witness ==
    /\ op = "Read"
    /\ pc = "done"
    /\ Last(trace).res \in NotFoundKinds
    /\ id = ""
    /\ diags = ""
    /\ attrs = ReadAttrs

====
